---- MODULE Spec2Model ----
(***************************************************************************)
(* Model of the fetch-resolution core (tecs/src/traits/fetch.rs) and of    *)
(* the system wrapper (trecs/src/system/mod.rs, trecs/src/world/query.rs). *)
(*                                                                         *)
(* Part I   - WorldFetch::contain / WorldFetch::build      (SpecFetch)     *)
(* Part II  - InnerSystem::init and the alias tracker      (SpecAlias)     *)
(* Part III - System::new / System::run_once               (SpecSys)       *)
(***************************************************************************)
EXTENDS Integers, Sequences, FiniteSets, TLC

\* ---------------------------------------------------------------- bounds
NumTypes == 3      \* distinct component TypeIds 1..NumTypes (ordered as TypeId is)
MaxNodes == 4      \* nodes (tuples + leaves) of a requested shape
MaxParmNodes == 4  \* nodes of all Query shapes of one parameter list together
MaxParms == 2      \* parameters of a system that is run (the code expands up to 16)
MaxSystems == 2    \* calls of System::new
MaxRuns == 2       \* calls of System::run_once per system

TypeIds == 1..NumTypes

\* ---------------------------------------------------------------- shapes
\* A WorldFetch type: &'static T, &'static mut T, or a tuple of WorldFetch types.
Read(t)  == [kind |-> "Read",  ty |-> t, elems |-> <<>>]
Write(t) == [kind |-> "Write", ty |-> t, elems |-> <<>>]
Tuple(es) == [kind |-> "Tuple", ty |-> 0, elems |-> es]

LeafShapes == {Read(t) : t \in TypeIds} \cup {Write(t) : t \in TypeIds}

\* the shapes with k nodes, given T[j + 1] = the sequences of shapes with j nodes in all
OfSize(T, k) == IF k = 1 THEN LeafShapes ELSE {Tuple(es) : es \in T[k]}

RECURSIVE GrowTable(_, _)
\* T extended up to the sequences of shapes with m nodes in all
GrowTable(T, m) ==
    IF Len(T) > m THEN T
    ELSE LET j == Len(T) IN
         GrowTable(Append(T, UNION {{<<s>> \o rest : s \in OfSize(T, k), rest \in T[j - k + 1]}
                                    : k \in 1..j}), m)

\* SeqTable(m)[j + 1]: the sequences of shapes with j nodes in all, for j in 0..m
SeqTable(m) == GrowTable(<< {<<>>} >>, m)

\* sequences of shapes whose node counts add up to m
ShapeSeqsOfSize(m) == SeqTable(m)[m + 1]

\* shapes with exactly n nodes: a leaf, or a tuple of one or more shapes
ShapesOfSize(n) ==
    IF n = 1 THEN LeafShapes ELSE {Tuple(es) : es \in ShapeSeqsOfSize(n - 1)}

AllShapes == UNION {ShapesOfSize(n) : n \in 1..MaxNodes}

RECURSIVE LeavesOf(_), ConcatLeaves(_, _)
\* the leaves of a shape in declared (pre-order) order
LeavesOf(s) == IF s.kind = "Tuple" THEN ConcatLeaves(s.elems, 1) ELSE <<s>>
ConcatLeaves(es, k) ==
    IF k > Len(es) THEN <<>> ELSE LeavesOf(es[k]) \o ConcatLeaves(es, k + 1)

\* ---------------------------------------------------------------- rows
\* Components: the type-erased values of one row, kept sorted by TypeId;
\* a value is represented by the TypeId of what it holds.
IsSortedNoDup(s) == \A i \in 1..(Len(s) - 1) : s[i] < s[i + 1]
Rows == {r \in UNION {[1..n -> TypeIds] : n \in 0..NumTypes} : IsSortedNoDup(r)}

\* ---------------------------------------------------------------- MappingTable
Mapping(i) == [tag |-> "Mapping", idx |-> i, nodes |-> <<>>]
Node(v)    == [tag |-> "Node", idx |-> 0, nodes |-> v]
None       == [tag |-> "None", idx |-> 0, nodes |-> <<>>]

\* slice::binary_search on a Vec<TypeId>: Ok(idx) / Err(_), 0-based
RECURSIVE bsearch(_, _, _, _)
bsearch(v, x, left, right) ==
    IF left >= right THEN [ok |-> FALSE, idx |-> left]
    ELSE LET mid == left + ((right - left) \div 2) IN
         IF v[mid + 1] = x THEN [ok |-> TRUE, idx |-> mid]
         ELSE IF v[mid + 1] < x THEN bsearch(v, x, mid + 1, right)
         ELSE bsearch(v, x, left, mid)
binary_search(v, x) == bsearch(v, x, 0, Len(v))

\* Vec::remove(index), 0-based: shifts the tail left
remove(v, i) == [k \in 1..(Len(v) - 1) |-> IF k <= i THEN v[k] ELSE v[k + 1]]

\* Vec::swap_remove(index): the last element takes the removed one's place
swap_remove(v, i) ==
    [k \in 1..(Len(v) - 1) |-> IF k = i + 1 THEN v[Len(v)] ELSE v[k]]

\* A contain result: res is the Option<MappingTable>, ids the working set
\* as the call leaves it, steps the working set after each leaf step.
containRead_swap(t, components_ids) ==
    LET r == binary_search(components_ids, t) IN
    IF ~r.ok THEN [res |-> None, ids |-> components_ids, steps |-> <<components_ids>>]
    ELSE LET left == swap_remove(components_ids, r.idx) IN
         [res |-> Mapping(r.idx), ids |-> left, steps |-> <<left>>]

\* <&'static T as WorldFetch>::contain
containRead(t, components_ids) ==
    LET r == binary_search(components_ids, t) IN
    IF ~r.ok THEN [res |-> None, ids |-> components_ids, steps |-> <<components_ids>>]
    ELSE LET left == remove(components_ids, r.idx) IN
         [res |-> Mapping(r.idx), ids |-> left, steps |-> <<left>>]

containWrite_keep(t, components_ids) ==
    LET r == binary_search(components_ids, t) IN
    IF ~r.ok THEN [res |-> None, ids |-> components_ids, steps |-> <<components_ids>>]
    ELSE [res |-> Mapping(r.idx), ids |-> components_ids, steps |-> <<components_ids>>]

\* <&'static mut T as WorldFetch>::contain
containWrite(t, components_ids) ==
    LET r == binary_search(components_ids, t) IN
    IF ~r.ok THEN [res |-> None, ids |-> components_ids, steps |-> <<components_ids>>]
    ELSE LET left == remove(components_ids, r.idx) IN
         [res |-> Mapping(r.idx), ids |-> left, steps |-> <<left>>]

RECURSIVE contain(_, _), containElems(_, _, _, _, _), containElems_noshort(_, _, _, _, _, _)

\* the tuple impl without the `?`: a failed child does not end the loop
containElems_noshort(elems, k, components_ids, mappings, steps, failed) ==
    IF k > Len(elems)
    THEN [res |-> IF failed THEN None ELSE Node(mappings),
          ids |-> components_ids, steps |-> steps]
    ELSE LET r == contain(elems[k], components_ids) IN
         containElems_noshort(elems, k + 1, r.ids,
                              IF r.res.tag = "None" THEN mappings ELSE Append(mappings, r.res),
                              steps \o r.steps, failed \/ r.res.tag = "None")

containTuple_noshort(elems, components_ids) ==
    containElems_noshort(elems, 1, components_ids, <<>>, <<>>, FALSE)

\* impl_fetch::contain, the body: mappings.push($t::contain(components_ids)?) per child
containElems(elems, k, components_ids, mappings, steps) ==
    IF k > Len(elems)
    THEN [res |-> Node(mappings), ids |-> components_ids, steps |-> steps]
    ELSE LET r == contain(elems[k], components_ids) IN
         IF r.res.tag = "None"
         THEN [res |-> None, ids |-> r.ids, steps |-> steps \o r.steps]
         ELSE containElems(elems, k + 1, r.ids, Append(mappings, r.res), steps \o r.steps)

\* impl_fetch::contain
containTuple(elems, components_ids) == containElems(elems, 1, components_ids, <<>>, <<>>)

\* WorldFetch::contain, dispatched on the implementing type
contain(s, components_ids) ==
    IF s.kind = "Read" THEN containRead(s.ty, components_ids)
    ELSE IF s.kind = "Write" THEN containWrite(s.ty, components_ids)
    ELSE containTuple(s.elems, components_ids)

\* ---------------------------------------------------------------- Item
Panic == [tag |-> "Panic", slot |-> 0, ty |-> 0, items |-> <<>>]
Ref(i, t)    == [tag |-> "Ref",    slot |-> i, ty |-> t, items |-> <<>>]
RefMut(i, t) == [tag |-> "RefMut", slot |-> i, ty |-> t, items |-> <<>>]
Items(v)     == [tag |-> "Items",  slot |-> 0, ty |-> 0, items |-> v]
NoItem       == [tag |-> "NoItem", slot |-> 0, ty |-> 0, items |-> <<>>]

\* <&'static T as WorldFetch>::build
\* as_mapping().unwrap(), components[..], downcast_ref().unwrap() each panic on failure
buildRead(t, components, mapping_table) ==
    IF mapping_table.tag # "Mapping" THEN Panic
    ELSE IF mapping_table.idx >= Len(components) THEN Panic
    ELSE IF components[mapping_table.idx + 1] # t THEN Panic
    ELSE Ref(mapping_table.idx, components[mapping_table.idx + 1])

\* the downcast taken on trust (no TypeId comparison)
buildWrite_unchecked(t, components, mapping_table) ==
    IF mapping_table.tag # "Mapping" THEN Panic
    ELSE IF mapping_table.idx >= Len(components) THEN Panic
    ELSE RefMut(mapping_table.idx, components[mapping_table.idx + 1])

\* <&'static mut T as WorldFetch>::build
buildWrite(t, components, mapping_table) ==
    IF mapping_table.tag # "Mapping" THEN Panic
    ELSE IF mapping_table.idx >= Len(components) THEN Panic
    ELSE IF components[mapping_table.idx + 1] # t THEN Panic
    ELSE RefMut(mapping_table.idx, components[mapping_table.idx + 1])

RECURSIVE build(_, _, _), buildElems(_, _, _, _, _)
\* impl_fetch::build, the body: $t::build(components, mappings.next().unwrap()) per child
buildElems(elems, k, components, mappings, items) ==
    IF k > Len(elems) THEN Items(items)
    ELSE IF k > Len(mappings) THEN Panic
    ELSE LET r == build(elems[k], components, mappings[k]) IN
         IF r.tag = "Panic" THEN Panic
         ELSE buildElems(elems, k + 1, components, mappings, Append(items, r))

\* impl_fetch::build
buildTuple(elems, components, mapping_table) ==
    IF mapping_table.tag # "Node" THEN Panic
    ELSE buildElems(elems, 1, components, mapping_table.nodes, <<>>)

\* WorldFetch::build, dispatched on the implementing type
build(s, components, mapping_table) ==
    IF s.kind = "Read" THEN buildRead(s.ty, components, mapping_table)
    ELSE IF s.kind = "Write" THEN buildWrite(s.ty, components, mapping_table)
    ELSE buildTuple(s.elems, components, mapping_table)


\* ---------------------------------------------------------------- function systems
\* A function system is described by its parameter list; every parameter
\* is a Query<F>, described by its WorldFetch type F.
\* parms is a parameter list of the given shape: no parameter, or a first
\* Query of k nodes followed by parameters of m - k nodes in all
IsFnSystem(ps, m) ==
    IF m = 0 THEN ps = <<>>
    ELSE \E k \in 1..m : \E f \in ShapesOfSize(k), rest \in ShapeSeqsOfSize(m - k) :
            ps = <<f>> \o rest
LeafFnSystems == UNION {[1..n -> LeafShapes] : n \in 0..MaxParms}

\* SystemState::new(): no access recorded for any type
NewSystemState == [alias_map |-> [t \in TypeIds |-> "Free"], panicked |-> FALSE]

\* one Access Record (t, mode) entering the alias map; a Write next to any
\* other record of the same type is the conflict
record(t, mode, state) ==
    IF state.panicked THEN state
    ELSE IF state.alias_map[t] = "Free"
         THEN [state EXCEPT !.alias_map[t] = mode]
    ELSE IF mode = "Read" /\ state.alias_map[t] = "Read" THEN state
    ELSE [state EXCEPT !.panicked = TRUE]

RECURSIVE recordLeaves(_, _, _)
recordLeaves(leaves, k, state) ==
    IF k > Len(leaves) THEN state
    ELSE recordLeaves(leaves, k + 1, record(leaves[k].ty, leaves[k].kind, state))

\* F::alias_conflict(&mut alias_map): the Access Records implied by F
alias_conflict(f, state) == recordLeaves(LeavesOf(f), 1, state)

\* <Query<F, Q> as SystemParm>::init
QueryInit(f, state) == alias_conflict(f, state)

RECURSIVE initParms(_, _, _), initParms_fresh(_, _, _)
\* $t::init(&mut state) for each parameter, in declared order
initParms(parms, k, state) ==
    IF k > Len(parms) \/ state.panicked THEN state
    ELSE initParms(parms, k + 1, QueryInit(parms[k], state))

\* each parameter validated against a state of its own
initParms_fresh(parms, k, state) ==
    IF k > Len(parms) \/ state.panicked THEN state
    ELSE initParms_fresh(parms, k + 1,
            [alias_map |-> NewSystemState.alias_map,
             panicked |-> QueryInit(parms[k], NewSystemState).panicked])

InnerSystem_init_fresh(parms) ==
    IF Len(parms) = 0 THEN NewSystemState
    ELSE initParms_fresh(parms, 1, NewSystemState)

\* InnerSystem::init: `fn init(&self) {}` for F: FnMut(), and
\* `let mut state = SystemState::new(); $($t::init(&mut state);)*` otherwise
InnerSystem_init(parms) ==
    IF Len(parms) = 0 THEN NewSystemState
    ELSE initParms(parms, 1, NewSystemState)

\* ---------------------------------------------------------------- System
\* a System value: the boxed InnerSystem of registration `id`
NewSystem(id, parms) ==
    [id |-> id, arity |-> Len(parms), pc |-> "Ready", unit |-> "NotRun", trace |-> <<>>]

\* System::new without the init call
System_new_noinit(id, parms) == [created |-> TRUE, system |-> NewSystem(id, parms)]

\* System::new: fn_system.init() first; a panic there leaves no System
System_new(id, parms) ==
    IF InnerSystem_init(parms).panicked
    THEN [created |-> FALSE, system |-> NewSystem(id, parms)]
    ELSE [created |-> TRUE, system |-> NewSystem(id, parms)]

\* InnerSystem::run_once: the AsyncUnit it returns and what it did.
\* Immediate build: the callable runs, None.  Async build: F: FnMut() returns
\* Some(Box::pin((self)())); the expanded impls call (self)(..), let the
\* returned future go and return None.
InnerSystem_run_once(async, arity) ==
    IF ~async THEN [unit |-> "None", events |-> <<"call">>]
    ELSE IF arity = 0 THEN [unit |-> "Some", events |-> <<"call">>]
    ELSE [unit |-> "None", events |-> <<"call", "drop">>]

\* System::run_once, immediate build: inner.run_once(inner.build_args(world))
System_run_once_normal(sys) ==
    LET r == InnerSystem_run_once(FALSE, sys.arity) IN
    [sys EXCEPT !.unit = r.unit, !.trace = @ \o <<"build_args">> \o r.events]

\* the async run_once that returns without awaiting the unit
System_run_once_async_noawait(sys) ==
    LET r == InnerSystem_run_once(TRUE, sys.arity) IN
    IF r.unit = "None"
    THEN [sys EXCEPT !.unit = r.unit, !.pc = "Panicked",
                     !.trace = @ \o <<"build_args">> \o r.events \o <<"panic">>]
    ELSE [sys EXCEPT !.unit = r.unit, !.pc = "Ready",
                     !.trace = @ \o <<"build_args">> \o r.events]

\* System::run_once, async build, up to the suspension:
\* inner.run_once(inner.build_args(world)).unwrap().await
System_run_once_async(sys) ==
    LET r == InnerSystem_run_once(TRUE, sys.arity) IN
    IF r.unit = "None"
    THEN [sys EXCEPT !.unit = r.unit, !.pc = "Panicked",
                     !.trace = @ \o <<"build_args">> \o r.events \o <<"panic">>]
    ELSE [sys EXCEPT !.unit = r.unit, !.pc = "Awaiting",
                     !.trace = @ \o <<"build_args">> \o r.events \o <<"await">>]

\* the executor drives the awaited unit to completion and run_once returns
System_run_once_resume(sys) ==
    [sys EXCEPT !.pc = "Ready", !.trace = @ \o <<"complete">>]

Count(v, e) == Cardinality({k \in DOMAIN v : v[k] = e})

\* ---------------------------------------------------------------- state
VARIABLES
    \* Part I: one resolution of a shape against a row, then one build
    shape,            \* the WorldFetch type F whose contain is called
    components,       \* the row (Components), sorted by TypeId
    components_ids,   \* the caller's working copy of the row's TypeIds
    mapping_table,    \* what F::contain returned
    steps,            \* history: the working set after each leaf step
    fetch,            \* the WorldFetch type whose build is called
    item,             \* what build returned
    fpc,              \* "start", "resolved", "stale", "built", "built_stale", "built_other"
    \* Part II: one InnerSystem::init
    parms,            \* the parameter list of the function system
    init_state,       \* the SystemState init ends with
    apc,              \* "start", "done"
    \* Part III: the systems of one world
    feature_async,    \* cfg(feature = "async") of the build
    systems,          \* the System values that exist
    init_ok,          \* history: per System::new call, did init return
    invocations       \* history: per System::new call, calls of its callable

fvars == <<shape, components, components_ids, mapping_table, steps, fetch, item, fpc>>

avars == <<parms, init_state, apc>>
svars == <<feature_async, systems, init_ok, invocations>>

vars == <<fvars, avars, svars>>

AliasIdle == parms = <<>> /\ init_state = NewSystemState /\ apc = "idle"

SysIdle == feature_async = FALSE /\ systems = <<>> /\ init_ok = <<>> /\ invocations = <<>>

FetchIdle ==
    /\ shape = Read(1) /\ components = <<>> /\ components_ids = <<>>
    /\ mapping_table = None /\ steps = <<>> /\ fetch = Read(1)
    /\ item = NoItem /\ fpc = "idle"

InitFetch ==
    /\ shape \in AllShapes
    /\ components \in Rows
    /\ components_ids = components
    /\ mapping_table = None
    /\ steps = <<>>
    /\ fetch = shape
    /\ item = NoItem
    /\ fpc = "start"
    /\ AliasIdle
    /\ SysIdle

\* F::contain(&mut components_ids)
Contain ==
    /\ fpc = "start"
    /\ LET r == contain(shape, components_ids) IN
        /\ mapping_table' = r.res
        /\ components_ids' = r.ids
        /\ steps' = r.steps
    /\ fpc' = "resolved"
    /\ UNCHANGED <<shape, components, fetch, item, avars, svars>>

\* the world inserts or removes components of the row after the plan was made
RowChanged ==
    /\ fpc = "resolved"
    /\ mapping_table # None
    /\ components' \in Rows \ {components}
    /\ fpc' = "stale"
    /\ UNCHANGED <<shape, components_ids, mapping_table, steps, fetch, item, avars, svars>>

\* F::build(&components, &mapping_table) with the plan F::contain made
Build ==
    /\ fpc \in {"resolved", "stale"}
    /\ mapping_table # None
    /\ item' = build(shape, components, mapping_table)
    /\ fpc' = IF fpc = "stale" THEN "built_stale" ELSE "built"
    /\ UNCHANGED <<shape, components, components_ids, mapping_table, steps, fetch, avars, svars>>

\* shapes one tuple level away from s: its children, the tuples of its
\* leading children, and the 1-tuple around it
NearShapes(s) ==
    {s.elems[k] : k \in 1..Len(s.elems)}
        \cup {Tuple(SubSeq(s.elems, 1, k)) : k \in 1..(Len(s.elems) - 1)}
        \cup {Tuple(<<s>>)}

\* G::build(&components, &mapping_table) with a plan made for another type F
BuildOther ==
    /\ fpc \in {"resolved", "stale"}
    /\ mapping_table # None
    /\ \E g \in NearShapes(shape) :
        /\ fetch' = g
        /\ item' = build(g, components, mapping_table)
    /\ fpc' = "built_other"
    /\ UNCHANGED <<shape, components, components_ids, mapping_table, steps, avars, svars>>

NextFetch == Contain \/ RowChanged \/ Build \/ BuildOther

SpecFetch == InitFetch /\ [][NextFetch]_vars

\* ---------------------------------------------------------------- helpers of the properties
Range(f) == {f[i] : i \in DOMAIN f}
LeafTypes(s) == [i \in DOMAIN LeavesOf(s) |-> LeavesOf(s)[i].ty]
Without(v, S) == SelectSeq(v, LAMBDA x : x \notin S)
\* 0-based position of t in the sorted row
SlotOf(row, t) == CHOOSE i \in 0..(Len(row) - 1) : row[i + 1] = t

RECURSIVE PlanLeaves(_), ConcatPlanLeaves(_, _)
PlanLeaves(mt) == IF mt.tag = "Node" THEN ConcatPlanLeaves(mt.nodes, 1) ELSE <<mt.idx>>
ConcatPlanLeaves(v, k) ==
    IF k > Len(v) THEN <<>> ELSE PlanLeaves(v[k]) \o ConcatPlanLeaves(v, k + 1)

RECURSIVE ViewsOf(_), ConcatViews(_, _)
ViewsOf(it) == IF it.tag = "Items" THEN ConcatViews(it.items, 1) ELSE <<it>>
ConcatViews(v, k) ==
    IF k > Len(v) THEN <<>> ELSE ViewsOf(v[k]) \o ConcatViews(v, k + 1)

Resolvable(s, row) ==
    /\ \A i \in DOMAIN LeavesOf(s) : LeavesOf(s)[i].ty \in Range(row)
    /\ \A i, j \in DOMAIN LeavesOf(s) : i # j => LeavesOf(s)[i].ty # LeavesOf(s)[j].ty

\* every view is over a value of the type its leaf asked for, in the leaf's mode
ViewsMatch(s, row, it) ==
    LET L == LeavesOf(s)  V == ViewsOf(it) IN
    /\ Len(V) = Len(L)
    /\ \A i \in DOMAIN L :
        /\ V[i].tag = (IF L[i].kind = "Read" THEN "Ref" ELSE "RefMut")
        /\ V[i].ty = L[i].ty
        /\ V[i].slot < Len(row)
        /\ row[V[i].slot + 1] = L[i].ty

\* C1: contain returns Some exactly when every leaf type of the shape is in
\* the row and no two leaves name the same type, otherwise None.
C1_ResolveIff ==
    fpc = "resolved" => ((mapping_table # None) <=> Resolvable(shape, components))

C1_Witness ==
    /\ fpc = "resolved"
    /\ shape = Tuple(<<Read(1), Write(1)>>)
    /\ components = <<1, 2>>
    /\ mapping_table = None

\* C2: whenever contain returned a plan, build of that plan against the same
\* row does not abort and gives each leaf a view of the type it asked for.
C2_RoundTrip ==
    fpc = "built" => (item # Panic /\ ViewsMatch(shape, components, item))

\* C8: each leaf of a returned plan holds the slot of its type in the row's
\* sorted index, so no two leaves of a plan hold the same slot.
C8_LeafSlots ==
    (fpc = "resolved" /\ mapping_table # None) =>
        LET P == PlanLeaves(mapping_table)  T == LeafTypes(shape) IN
        /\ Len(P) = Len(T)
        /\ \A i \in DOMAIN P : P[i] = SlotOf(components, T[i])
        /\ \A i, j \in DOMAIN P : i # j => P[i] # P[j]

\* ---------------------------------------------------------------- Part II
InitAlias ==
    /\ \E m \in 0..MaxParmNodes : IsFnSystem(parms, m)
    /\ init_state = NewSystemState
    /\ apc = "start"
    /\ FetchIdle
    /\ SysIdle

\* fn_system.init()
InitSystem ==
    /\ apc = "start"
    /\ init_state' = InnerSystem_init(parms)
    /\ apc' = "done"
    /\ UNCHANGED <<parms, fvars, svars>>

NextAlias == InitSystem

SpecAlias == InitAlias /\ [][NextAlias]_vars

\* ---------------------------------------------------------------- Part III
InitSys ==
    /\ feature_async \in BOOLEAN
    /\ systems = <<>>
    /\ init_ok = <<>>
    /\ invocations = <<>>
    /\ FetchIdle
    /\ AliasIdle

\* System::new(fn_system); the System it returns is kept by the world
SystemNew ==
    /\ Len(init_ok) < MaxSystems
    /\ \E fn \in LeafFnSystems :
        LET id == Len(init_ok) + 1
            r == System_new(id, fn) IN
        /\ init_ok' = Append(init_ok, ~InnerSystem_init(fn).panicked)
        /\ invocations' = Append(invocations, 0)
        /\ systems' = IF r.created THEN Append(systems, r.system) ELSE systems
    /\ UNCHANGED <<feature_async, fvars, avars>>

\* System::run_once(&mut self, world), cfg(not(feature = "async"))
RunOnceNormal(i) ==
    /\ ~feature_async
    /\ systems[i].pc = "Ready"
    /\ invocations[systems[i].id] < MaxRuns
    /\ systems' = [systems EXCEPT ![i] = System_run_once_normal(@)]
    /\ invocations' = [invocations EXCEPT ![systems[i].id] = @ + 1]
    /\ UNCHANGED <<feature_async, init_ok, fvars, avars>>

\* System::run_once(&mut self, world), cfg(feature = "async"), to its await
RunOnceAsync(i) ==
    /\ feature_async
    /\ systems[i].pc = "Ready"
    /\ invocations[systems[i].id] < MaxRuns
    /\ systems' = [systems EXCEPT ![i] = System_run_once_async(@)]
    /\ invocations' = [invocations EXCEPT ![systems[i].id] = @ + 1]
    /\ UNCHANGED <<feature_async, init_ok, fvars, avars>>

\* the awaited unit of system i completes
UnitCompletes(i) ==
    /\ feature_async
    /\ systems[i].pc = "Awaiting"
    /\ systems' = [systems EXCEPT ![i] = System_run_once_resume(@)]
    /\ UNCHANGED <<feature_async, init_ok, invocations, fvars, avars>>

NextSys ==
    \/ SystemNew
    \/ \E i \in DOMAIN systems : RunOnceNormal(i)
    \/ \E i \in DOMAIN systems : RunOnceAsync(i)
    \/ \E i \in DOMAIN systems : UnitCompletes(i)

SpecSys == InitSys /\ [][NextSys]_vars

\* ---------------------------------------------------------------- properties, Part I (continued)
\* position of the first leaf contain cannot resolve: its type is not in the
\* row, or an earlier leaf has taken it; Len + 1 when there is none
FirstFail(L, row) ==
    LET bad == {k \in DOMAIN L : \/ L[k].ty \notin Range(row)
                                  \/ \E j \in 1..(k - 1) : L[j].ty = L[k].ty} IN
    IF bad = {} THEN Len(L) + 1 ELSE CHOOSE k \in bad : \A m \in bad : k <= m

RECURSIVE PlanMismatch(_, _, _)
\* along the shape, some part of the plan does not fit the shape or the row
PlanMismatch(s, row, mt) ==
    IF s.kind = "Tuple"
    THEN \/ mt.tag # "Node"
         \/ \E k \in 1..Len(s.elems) :
                \/ k > Len(mt.nodes)
                \/ PlanMismatch(s.elems[k], row, mt.nodes[k])
    ELSE \/ mt.tag # "Mapping"
         \/ mt.idx >= Len(row)
         \/ row[mt.idx + 1] # s.ty

Built == fpc \in {"built", "built_stale", "built_other"}

\* C7: build aborts whenever a leaf's slot is out of the row's range, the
\* value at the slot is not of the requested type, or a plan part is of the
\* wrong kind; a view it returns is always over a value of the requested type.
C7_StaleIsFatal ==
    Built =>
        /\ PlanMismatch(fetch, components, mapping_table) => item = Panic
        /\ item # Panic => ViewsMatch(fetch, components, item)

C7_Witness ==
    /\ fpc = "built_stale"
    /\ item = Panic
    /\ \E k \in DOMAIN PlanLeaves(mapping_table) :
           /\ PlanLeaves(mapping_table)[k] < Len(components)
           /\ components[PlanLeaves(mapping_table)[k] + 1] # LeafTypes(shape)[k]

\* C9 as stated: when contain of a tuple returns None, the working set is
\* the same as before the call.
C9_WorkingSetRestored ==
    (fpc = "resolved" /\ shape.kind = "Tuple" /\ mapping_table = None) =>
        components_ids = components

\* C9 amended: when contain of a tuple returns None, nothing of a plan is
\* returned and the working set has lost exactly the types of the leaves
\* resolved before the failing leaf.
C9_ConsumedPrefix ==
    (fpc = "resolved" /\ shape.kind = "Tuple" /\ ~Resolvable(shape, components)) =>
        LET L == LeavesOf(shape)
            f == FirstFail(L, components) IN
        /\ mapping_table = None
        /\ components_ids = Without(components, {L[j].ty : j \in 1..(f - 1)})
        /\ Len(steps) = f

C9_Witness ==
    /\ fpc = "resolved"
    /\ shape = Tuple(<<Tuple(<<Write(1), Read(3)>>)>>)
    /\ components = <<1, 2>>
    /\ mapping_table = None
    /\ components_ids = <<2>>

\* C10: after every leaf step the working set is sorted and duplicate-free;
\* a successful contain of k leaves removes exactly the k leaf types, and a
\* failing leaf step removes nothing.
C10_WorkingSetSorted ==
    fpc = "resolved" =>
        LET L == LeavesOf(shape)
            before(k) == IF k = 1 THEN components ELSE steps[k - 1] IN
        /\ \A k \in DOMAIN steps : IsSortedNoDup(steps[k])
        /\ Len(steps) >= 1 /\ components_ids = steps[Len(steps)]
        /\ mapping_table # None =>
              /\ Len(steps) = Len(L)
              /\ Range(components_ids) = Range(components) \ Range(LeafTypes(shape))
              /\ Len(components_ids) = Len(components) - Len(L)
              /\ \A k \in DOMAIN steps :
                    /\ Len(steps[k]) = Len(before(k)) - 1
                    /\ Range(steps[k]) = Range(before(k)) \ {L[k].ty}
        /\ mapping_table = None =>
              /\ steps[Len(steps)] = before(Len(steps))
              /\ \A k \in 1..(Len(steps) - 1) :
                    Range(steps[k]) = Range(before(k)) \ {L[k].ty}

C10_Witness ==
    /\ fpc = "resolved"
    /\ components = <<1, 2, 3>>
    /\ shape = Tuple(<<Write(1), Read(3), Read(2)>>)
    /\ steps = <<(<<2, 3>>), (<<2>>), (<<>>)>>
    /\ components_ids = <<>>

\* ---------------------------------------------------------------- properties, Part II
\* the Access Records of a whole parameter list, in declared order
RECURSIVE RecordsOf(_, _)
RecordsOf(ps, k) == IF k > Len(ps) THEN <<>> ELSE LeavesOf(ps[k]) \o RecordsOf(ps, k + 1)

\* some type has a Write record together with another record
HasConflict(recs) ==
    \E i, j \in DOMAIN recs :
        i # j /\ recs[i].ty = recs[j].ty /\ recs[i].kind = "Write"

\* C3: initialization of a system fails exactly when, over the records of
\* all its parameters, some type has a Write record together with any other
\* record of that type.
C3_AliasRule ==
    apc = "done" => (init_state.panicked <=> HasConflict(RecordsOf(parms, 1)))

C3_Witness ==
    /\ apc = "done"
    /\ parms = <<Write(1), Read(1)>>
    /\ init_state.panicked

\* ---------------------------------------------------------------- properties, Part III
\* C4: a system whose init failed is no System value and its callable is
\* never invoked; every invoked callable belongs to a system whose init
\* returned.
C4_NoRunWithoutInit ==
    /\ \A i \in DOMAIN systems : init_ok[systems[i].id]
    /\ \A id \in DOMAIN invocations : invocations[id] > 0 => init_ok[id]

C4_Witness ==
    \E a, b \in DOMAIN init_ok :
        /\ ~init_ok[a] /\ invocations[a] = 0
        /\ init_ok[b] /\ invocations[b] > 0

\* C5: in the async build InnerSystem::run_once returns Some unit for every
\* system, nothing is dropped undriven and nothing aborts; in the immediate
\* build it returns None.
C5_DeferredUnit ==
    \A i \in DOMAIN systems :
        systems[i].unit # "NotRun" =>
            IF feature_async
            THEN /\ systems[i].unit = "Some"
                 /\ systems[i].pc # "Panicked"
                 /\ Count(systems[i].trace, "drop") = 0
            ELSE systems[i].unit = "None"

\* C6: in the async build, build_args of a system's next invocation comes
\* only after the unit of its previous invocation completed, and within an
\* invocation the order is build_args, the callable, the await.
C6_Sequential ==
    feature_async =>
        \A i \in DOMAIN systems :
            LET tr == systems[i].trace IN
            \A k \in DOMAIN tr :
                /\ tr[k] = "build_args" => (k = 1 \/ tr[k - 1] = "complete")
                /\ tr[k] = "call" => (k > 1 /\ tr[k - 1] = "build_args")
                /\ tr[k] = "await" => (k > 1 /\ tr[k - 1] = "call")
                /\ tr[k] = "complete" => (k > 1 /\ tr[k - 1] = "await")

C6_Witness ==
    /\ feature_async
    /\ \E i \in DOMAIN systems :
          systems[i].trace = <<"build_args", "call", "await", "complete",
                               "build_args", "call", "await">>
====
